---- MODULE Spec2Model ----
(***************************************************************************)
(* Goal lifecycle of the Fibonacci action server                           *)
(* (src/cpp/actions_example_cpp/src/fib_server.cpp).                        *)
(*                                                                         *)
(* One dispatch path runs handle_goal, handle_accepted and handle_cancel;  *)
(* every accepted goal gets its own detached thread running compute().     *)
(* compute() is cut at each read of state another thread can write         *)
(* (rclcpp::ok(), goal_handle->is_canceling()), so every interleaving of   *)
(* the workers with the dispatch path and with shutdown is explored.       *)
(***************************************************************************)
EXTENDS Integers, Sequences, FiniteSets, TLC

\* The goals of a run: two goals admitted concurrently.  Ids are opaque.
Goals == {"g1", "g2"}

\* Orders a client may put in a goal request when two goals run concurrently.
Orders == {-1, 0, 1, 5, 10, 21}

\* Largest order a client requests when one goal runs alone; every order
\* from -2 up to it is requested.
MaxRequestOrder == 21

SoloOrders == -2..MaxRequestOrder

\* Cancellation requests a client sends for one goal.
MaxCancels == 2

\* fib_server.cpp:58   if (goal->order > 20)
MaxOrder == 20

\* fib_server.cpp:88   if (goal_handle->get_goal()->order < 10)
MinCancelOrder == 10

NoOrder == -1000

VARIABLES
  ok,             \* rclcpp::ok()
  order,          \* goal->order of each request (NoOrder: not yet received)
  response,       \* what handle_goal returned: "NONE", "REJECT", "ACCEPT_AND_EXECUTE"
  status,         \* goal handle status: "NONE" (no handle), "EXECUTING", "SUCCEEDED", "CANCELED", "ABORTED"
  canceling,      \* goal_handle->is_canceling(): the cancellation flag
  cancelResponse, \* what the last handle_cancel returned: "NONE", "REJECT", "ACCEPT"
  cancels,        \* number of cancellation requests received for the goal
  cancelAt,       \* feedbacks published when the flag was first set on an EXECUTING goal (-1: never)
  spawned,        \* number of compute threads started for the goal
  pc,             \* position of the goal's compute thread
  i,              \* loop variable of compute
  sequence,       \* feedback->partial_sequence
  result,         \* result->sequence
  log             \* messages the goal handle emitted, oldest first

vars == <<ok, order, response, status, canceling, cancelResponse, cancels,
          cancelAt, spawned, pc, i, sequence, result, log>>

dispatchVars == <<order, response, cancelResponse, cancels, cancelAt, spawned>>

----------------------------------------------------------------------------
Feedback(seq) == [kind |-> "feedback", status |-> "EXECUTING", seq |-> seq]

Terminal(st, seq) == [kind |-> "result", status |-> st, seq |-> seq]

IsFeedback(m) == m.kind = "feedback"

IsTerminal(m) == m.kind = "result"

Feedbacks(g) == SelectSeq(log[g], IsFeedback)

Terminals(g) == SelectSeq(log[g], IsTerminal)

TerminalStatus == {"SUCCEEDED", "CANCELED", "ABORTED"}

----------------------------------------------------------------------------
\* handle_goal with the limit off by one upwards: order 21 is admitted.
handle_goal_Loose(o) == IF o > MaxOrder + 1 THEN "REJECT" ELSE "ACCEPT_AND_EXECUTE"

\* handle_goal with the limit off by one downwards: order 20 is rejected.
handle_goal_Strict(o) == IF o >= MaxOrder THEN "REJECT" ELSE "ACCEPT_AND_EXECUTE"

\* FibonacciComputer::handle_goal
handle_goal(o) == IF o > MaxOrder THEN "REJECT" ELSE "ACCEPT_AND_EXECUTE"

\* handle_cancel without the test of the order: every request is accepted.
handle_cancel_Always(o) == "ACCEPT"

\* FibonacciComputer::handle_cancel
handle_cancel(o) == IF o < MinCancelOrder THEN "REJECT" ELSE "ACCEPT"

\* The append with the wrong pair of indices: sequence[i] + sequence[i].
push_back_next_Double(seq, k) == Append(seq, seq[k + 1] + seq[k + 1])

\* sequence.push_back(sequence[i] + sequence[i - 1]); the vector is 0-based,
\* the TLA+ sequence 1-based.
push_back_next(seq, k) == Append(seq, seq[k + 1] + seq[k])

\* The loop condition with <= for <: one iteration too many.
loop_cond_Inclusive(k, o, isOk) == (k <= o) /\ isOk

\* The loop condition (i < order) && rclcpp::ok()
loop_cond(k, o, isOk) == (k < o) /\ isOk

----------------------------------------------------------------------------
Init ==
  /\ ok = TRUE
  /\ order = [g \in Goals |-> NoOrder]
  /\ response = [g \in Goals |-> "NONE"]
  /\ status = [g \in Goals |-> "NONE"]
  /\ canceling = [g \in Goals |-> FALSE]
  /\ cancelResponse = [g \in Goals |-> "NONE"]
  /\ cancels = [g \in Goals |-> 0]
  /\ cancelAt = [g \in Goals |-> -1]
  /\ spawned = [g \in Goals |-> 0]
  /\ pc = [g \in Goals |-> "idle"]
  /\ i = [g \in Goals |-> 0]
  /\ sequence = [g \in Goals |-> <<>>]
  /\ result = [g \in Goals |-> <<>>]
  /\ log = [g \in Goals |-> <<>>]

\* A server that takes one goal at a time: a request is rejected while
\* another goal is executing.
GoalRequest_Busy(g, o) ==
  /\ ok
  /\ response[g] = "NONE"
  /\ order' = [order EXCEPT ![g] = o]
  /\ response' = [response EXCEPT ![g] =
                    IF \E h \in Goals : status[h] = "EXECUTING"
                    THEN "REJECT" ELSE handle_goal(o)]
  /\ status' = [status EXCEPT ![g] =
                  IF /\ handle_goal(o) = "ACCEPT_AND_EXECUTE"
                     /\ ~\E h \in Goals : status[h] = "EXECUTING"
                  THEN "EXECUTING" ELSE "NONE"]
  /\ UNCHANGED <<ok, canceling, cancelResponse, cancels, cancelAt, spawned,
                 pc, i, sequence, result, log>>

\* A goal request arrives: handle_goal decides; on ACCEPT_AND_EXECUTE the
\* middleware creates the goal handle in the executing state.
GoalRequest(g, o) ==
  /\ ok
  /\ response[g] = "NONE"
  /\ order' = [order EXCEPT ![g] = o]
  /\ response' = [response EXCEPT ![g] = handle_goal(o)]
  /\ status' = [status EXCEPT ![g] =
                  IF handle_goal(o) = "ACCEPT_AND_EXECUTE" THEN "EXECUTING" ELSE "NONE"]
  /\ UNCHANGED <<ok, canceling, cancelResponse, cancels, cancelAt, spawned,
                 pc, i, sequence, result, log>>

\* handle_accepted calling compute itself instead of starting a thread: the
\* first part of compute runs inside the callback.
HandleAccepted_Inline(g) ==
  /\ ok
  /\ response[g] = "ACCEPT_AND_EXECUTE"
  /\ spawned[g] = 0
  /\ spawned' = [spawned EXCEPT ![g] = @ + 1]
  /\ sequence' = [sequence EXCEPT ![g] = <<0, 1>>]
  /\ i' = [i EXCEPT ![g] = 1]
  /\ pc' = [pc EXCEPT ![g] = IF order[g] = 0 THEN "start" ELSE "loop"]
  /\ UNCHANGED <<ok, order, response, status, canceling, cancelResponse,
                 cancels, cancelAt, result, log>>

\* handle_accepted: called once per accepted goal, starts a detached thread
\* running compute.
HandleAccepted(g) ==
  /\ ok
  /\ response[g] = "ACCEPT_AND_EXECUTE"
  /\ spawned[g] = 0
  /\ spawned' = [spawned EXCEPT ![g] = @ + 1]
  /\ pc' = [pc EXCEPT ![g] = "start"]
  /\ UNCHANGED <<ok, order, response, status, canceling, cancelResponse,
                 cancels, cancelAt, i, sequence, result, log>>

\* A cancellation that stops the goal from the dispatch path: an accepted
\* request for an executing goal marks it CANCELED and sends its result.
CancelRequest_Stop(g) ==
  /\ ok
  /\ status[g] # "NONE"
  /\ cancels[g] < MaxCancels
  /\ cancels' = [cancels EXCEPT ![g] = @ + 1]
  /\ cancelResponse' = [cancelResponse EXCEPT ![g] = handle_cancel(order[g])]
  /\ canceling' = [canceling EXCEPT ![g] =
                     @ \/ handle_cancel(order[g]) = "ACCEPT"]
  /\ cancelAt' = [cancelAt EXCEPT ![g] =
                    IF /\ handle_cancel(order[g]) = "ACCEPT"
                       /\ ~canceling[g]
                       /\ status[g] = "EXECUTING"
                    THEN Len(Feedbacks(g)) ELSE @]
  /\ IF handle_cancel(order[g]) = "ACCEPT" /\ status[g] = "EXECUTING"
     THEN /\ status' = [status EXCEPT ![g] = "CANCELED"]
          /\ result' = [result EXCEPT ![g] = sequence[g]]
          /\ log' = [log EXCEPT ![g] = Append(@, Terminal("CANCELED", sequence[g]))]
          /\ pc' = [pc EXCEPT ![g] = "done"]
     ELSE UNCHANGED <<status, result, log, pc>>
  /\ UNCHANGED <<ok, order, response, spawned, i, sequence>>

\* A preemptive cancellation: an accepted request marks the goal CANCELED and
\* sends its result from the dispatch path, whatever the goal's status.
CancelRequest_Preempt(g) ==
  /\ ok
  /\ status[g] # "NONE"
  /\ cancels[g] < MaxCancels
  /\ cancels' = [cancels EXCEPT ![g] = @ + 1]
  /\ cancelResponse' = [cancelResponse EXCEPT ![g] = handle_cancel(order[g])]
  /\ canceling' = [canceling EXCEPT ![g] =
                     @ \/ handle_cancel(order[g]) = "ACCEPT"]
  /\ cancelAt' = [cancelAt EXCEPT ![g] =
                    IF /\ handle_cancel(order[g]) = "ACCEPT"
                       /\ ~canceling[g]
                       /\ status[g] = "EXECUTING"
                    THEN Len(Feedbacks(g)) ELSE @]
  /\ IF handle_cancel(order[g]) = "ACCEPT"
     THEN /\ status' = [status EXCEPT ![g] = "CANCELED"]
          /\ log' = [log EXCEPT ![g] = Append(@, Terminal("CANCELED", sequence[g]))]
     ELSE UNCHANGED <<status, log>>
  /\ UNCHANGED <<ok, order, response, spawned, pc, i, sequence, result>>

\* A cancellation flag shared by all goal handles instead of one per handle.
CancelRequest_Shared(g) ==
  /\ ok
  /\ status[g] # "NONE"
  /\ cancels[g] < MaxCancels
  /\ cancels' = [cancels EXCEPT ![g] = @ + 1]
  /\ cancelResponse' = [cancelResponse EXCEPT ![g] = handle_cancel(order[g])]
  /\ canceling' = [h \in Goals |->
                     canceling[h] \/ handle_cancel(order[g]) = "ACCEPT"]
  /\ cancelAt' = [cancelAt EXCEPT ![g] =
                    IF /\ handle_cancel(order[g]) = "ACCEPT"
                       /\ ~canceling[g]
                       /\ status[g] = "EXECUTING"
                    THEN Len(Feedbacks(g)) ELSE @]
  /\ UNCHANGED <<ok, order, response, status, spawned, pc, i, sequence,
                 result, log>>

\* A cancellation request for an existing goal handle: handle_cancel decides;
\* on ACCEPT the middleware raises the handle's cancellation flag.
CancelRequest(g) ==
  /\ ok
  /\ status[g] # "NONE"
  /\ cancels[g] < MaxCancels
  /\ cancels' = [cancels EXCEPT ![g] = @ + 1]
  /\ cancelResponse' = [cancelResponse EXCEPT ![g] = handle_cancel(order[g])]
  /\ canceling' = [canceling EXCEPT ![g] =
                     @ \/ handle_cancel(order[g]) = "ACCEPT"]
  /\ cancelAt' = [cancelAt EXCEPT ![g] =
                    IF /\ handle_cancel(order[g]) = "ACCEPT"
                       /\ ~canceling[g]
                       /\ status[g] = "EXECUTING"
                    THEN Len(Feedbacks(g)) ELSE @]
  /\ UNCHANGED <<ok, order, response, status, spawned, pc, i, sequence,
                 result, log>>

\* The process is told to stop: rclcpp::ok() turns false for good.
Shutdown ==
  /\ ok
  /\ ok' = FALSE
  /\ UNCHANGED <<order, response, status, canceling, cancelResponse, cancels,
                 cancelAt, spawned, pc, i, sequence, result, log>>

----------------------------------------------------------------------------
\* compute refusing every order that is not positive: if (order <= 0).
ComputeStart_AbortNonPositive(g) ==
  /\ pc[g] = "start"
  /\ IF order[g] <= 0
     THEN /\ status' = [status EXCEPT ![g] = "ABORTED"]
          /\ log' = [log EXCEPT ![g] = Append(@, Terminal("ABORTED", result[g]))]
          /\ pc' = [pc EXCEPT ![g] = "done"]
          /\ UNCHANGED <<sequence, i>>
     ELSE /\ sequence' = [sequence EXCEPT ![g] = <<0, 1>>]
          /\ i' = [i EXCEPT ![g] = 1]
          /\ pc' = [pc EXCEPT ![g] = "loop"]
          /\ UNCHANGED <<status, log>>
  /\ UNCHANGED <<ok, canceling, result>>
  /\ UNCHANGED dispatchVars

\* compute with the seed 1, 1 instead of 0, 1.
ComputeStart_SeedOnes(g) ==
  /\ pc[g] = "start"
  /\ IF order[g] = 0
     THEN /\ status' = [status EXCEPT ![g] = "ABORTED"]
          /\ log' = [log EXCEPT ![g] = Append(@, Terminal("ABORTED", result[g]))]
          /\ pc' = [pc EXCEPT ![g] = "done"]
          /\ UNCHANGED <<sequence, i>>
     ELSE /\ sequence' = [sequence EXCEPT ![g] = <<1, 1>>]
          /\ i' = [i EXCEPT ![g] = 1]
          /\ pc' = [pc EXCEPT ![g] = "loop"]
          /\ UNCHANGED <<status, log>>
  /\ UNCHANGED <<ok, canceling, result>>
  /\ UNCHANGED dispatchVars

\* compute without the order 0 test of lines 154-161.
ComputeStart_NoAbort(g) ==
  /\ pc[g] = "start"
  /\ sequence' = [sequence EXCEPT ![g] = <<0, 1>>]
  /\ i' = [i EXCEPT ![g] = 1]
  /\ pc' = [pc EXCEPT ![g] = "loop"]
  /\ UNCHANGED <<ok, status, log, canceling, result>>
  /\ UNCHANGED dispatchVars

\* compute, lines 149-165: order 0 is aborted with the default result,
\* otherwise the sequence is seeded and the loop variable initialised.
ComputeStart(g) ==
  /\ pc[g] = "start"
  /\ IF order[g] = 0
     THEN /\ status' = [status EXCEPT ![g] = "ABORTED"]
          /\ log' = [log EXCEPT ![g] = Append(@, Terminal("ABORTED", result[g]))]
          /\ pc' = [pc EXCEPT ![g] = "done"]
          /\ UNCHANGED <<sequence, i>>
     ELSE /\ sequence' = [sequence EXCEPT ![g] = <<0, 1>>]
          /\ i' = [i EXCEPT ![g] = 1]
          /\ pc' = [pc EXCEPT ![g] = "loop"]
          /\ UNCHANGED <<status, log>>
  /\ UNCHANGED <<ok, canceling, result>>
  /\ UNCHANGED dispatchVars

\* compute, line 170: the loop condition.
LoopCond(g) ==
  /\ pc[g] = "loop"
  /\ pc' = [pc EXCEPT ![g] =
              IF loop_cond(i[g], order[g], ok) THEN "check" ELSE "final"]
  /\ UNCHANGED <<ok, status, canceling, i, sequence, result, log>>
  /\ UNCHANGED dispatchVars

\* The cancellation branch without its return (line 180): the loop goes on
\* after canceled() was called.
CheckCancel_NoReturn(g) ==
  /\ pc[g] = "check"
  /\ IF canceling[g]
     THEN /\ result' = [result EXCEPT ![g] = sequence[g]]
          /\ status' = [status EXCEPT ![g] = "CANCELED"]
          /\ log' = [log EXCEPT ![g] = Append(@, Terminal("CANCELED", sequence[g]))]
     ELSE UNCHANGED <<result, status, log>>
  /\ pc' = [pc EXCEPT ![g] = "step"]
  /\ UNCHANGED <<ok, canceling, i, sequence>>
  /\ UNCHANGED dispatchVars

\* The flag polled every other iteration only (when i is odd).
CheckCancel_Odd(g) ==
  /\ pc[g] = "check"
  /\ IF canceling[g] /\ i[g] % 2 = 1
     THEN /\ result' = [result EXCEPT ![g] = sequence[g]]
          /\ status' = [status EXCEPT ![g] = "CANCELED"]
          /\ log' = [log EXCEPT ![g] = Append(@, Terminal("CANCELED", sequence[g]))]
          /\ pc' = [pc EXCEPT ![g] = "done"]
     ELSE /\ pc' = [pc EXCEPT ![g] = "step"]
          /\ UNCHANGED <<result, status, log>>
  /\ UNCHANGED <<ok, canceling, i, sequence>>
  /\ UNCHANGED dispatchVars

\* The loop without the is_canceling() test of line 172.
CheckCancel_Ignore(g) ==
  /\ pc[g] = "check"
  /\ pc' = [pc EXCEPT ![g] = "step"]
  /\ UNCHANGED <<ok, status, canceling, i, sequence, result, log>>
  /\ UNCHANGED dispatchVars

\* compute, lines 172-181: the step-boundary cancellation check.
CheckCancel(g) ==
  /\ pc[g] = "check"
  /\ IF canceling[g]
     THEN /\ result' = [result EXCEPT ![g] = sequence[g]]
          /\ status' = [status EXCEPT ![g] = "CANCELED"]
          /\ log' = [log EXCEPT ![g] = Append(@, Terminal("CANCELED", sequence[g]))]
          /\ pc' = [pc EXCEPT ![g] = "done"]
     ELSE /\ pc' = [pc EXCEPT ![g] = "step"]
          /\ UNCHANGED <<result, status, log>>
  /\ UNCHANGED <<ok, canceling, i, sequence>>
  /\ UNCHANGED dispatchVars

\* The feedback published before the append instead of after it.
Step_PublishFirst(g) ==
  /\ pc[g] = "step"
  /\ sequence' = [sequence EXCEPT ![g] = push_back_next(@, i[g])]
  /\ log' = [log EXCEPT ![g] = Append(@, Feedback(sequence[g]))]
  /\ i' = [i EXCEPT ![g] = @ + 1]
  /\ pc' = [pc EXCEPT ![g] = "loop"]
  /\ UNCHANGED <<ok, status, canceling, result>>
  /\ UNCHANGED dispatchVars

\* compute, lines 184-194 and the i++ of line 170: append, publish the
\* feedback, sleep.
Step(g) ==
  /\ pc[g] = "step"
  /\ sequence' = [sequence EXCEPT ![g] = push_back_next(@, i[g])]
  /\ log' = [log EXCEPT ![g] = Append(@, Feedback(push_back_next(sequence[g], i[g])))]
  /\ i' = [i EXCEPT ![g] = @ + 1]
  /\ pc' = [pc EXCEPT ![g] = "loop"]
  /\ UNCHANGED <<ok, status, canceling, result>>
  /\ UNCHANGED dispatchVars

\* The result held back from a goal whose cancellation was requested:
\* if (rclcpp::ok() && !goal_handle->is_canceling()).
Finish_UnlessCanceling(g) ==
  /\ pc[g] = "final"
  /\ pc' = [pc EXCEPT ![g] = IF ok /\ ~canceling[g] THEN "succeed" ELSE "done"]
  /\ UNCHANGED <<ok, status, canceling, i, sequence, result, log>>
  /\ UNCHANGED dispatchVars

\* compute, line 199: the test of rclcpp::ok() before the result.
Finish(g) ==
  /\ pc[g] = "final"
  /\ pc' = [pc EXCEPT ![g] = IF ok THEN "succeed" ELSE "done"]
  /\ UNCHANGED <<ok, status, canceling, i, sequence, result, log>>
  /\ UNCHANGED dispatchVars

\* compute, lines 200-205: the result is set and succeed() called; the test
\* of line 199 is not repeated.
Succeed(g) ==
  /\ pc[g] = "succeed"
  /\ result' = [result EXCEPT ![g] = sequence[g]]
  /\ status' = [status EXCEPT ![g] = "SUCCEEDED"]
  /\ log' = [log EXCEPT ![g] = Append(@, Terminal("SUCCEEDED", sequence[g]))]
  /\ pc' = [pc EXCEPT ![g] = "done"]
  /\ UNCHANGED <<ok, canceling, i, sequence>>
  /\ UNCHANGED dispatchVars

compute(g) ==
  \/ ComputeStart(g)
  \/ LoopCond(g)
  \/ CheckCancel(g)
  \/ Step(g)
  \/ Finish(g)
  \/ Succeed(g)

Next ==
  \/ \E g \in Goals : \E o \in Orders : GoalRequest(g, o)
  \/ \E g \in Goals : HandleAccepted(g)
  \/ \E g \in Goals : CancelRequest(g)
  \/ Shutdown
  \/ \E g \in Goals : compute(g)

Spec == Init /\ [][Next]_vars

\* One goal alone, with every order of SoloOrders.
SoloNext ==
  \/ \E o \in SoloOrders : GoalRequest("g1", o)
  \/ HandleAccepted("g1")
  \/ CancelRequest("g1")
  \/ Shutdown
  \/ compute("g1")

SpecSolo == Init /\ [][SoloNext]_vars

\* Two goals with every compute thread scheduled fairly: a detached thread
\* that can run does run, and handle_accepted is called for an accepted goal.
\* Nothing makes a client send requests or the process shut down.
Fairness ==
  \A g \in Goals : WF_vars(compute(g)) /\ WF_vars(HandleAccepted(g))

SpecFair == Init /\ [][Next]_vars /\ Fairness

----------------------------------------------------------------------------
Requested(g) == response[g] # "NONE"

Admitted(g) == response[g] = "ACCEPT_AND_EXECUTE"

Seqs(msgs) == [j \in 1..Len(msgs) |-> msgs[j].seq]

\* C1: a goal's status never changes once it is SUCCEEDED, CANCELED or
\* ABORTED, and compute makes at most one terminal call (succeed, canceled,
\* abort) for a goal, so at most one result message is emitted.
C1_OneTerminal ==
  [][\A g \in Goals :
       /\ status[g] \in TerminalStatus =>
            /\ status'[g] = status[g]
            /\ Terminals(g)' = Terminals(g)
       /\ status'[g] # status[g] => status[g] \in {"NONE", "EXECUTING"}
       /\ Len(Terminals(g)') <= 1]_vars

\* C1 witness: a goal canceled after feedback, whose thread has returned.
C1_Witness ==
  \E g \in Goals :
    /\ status[g] = "CANCELED"
    /\ pc[g] = "done"
    /\ Len(Feedbacks(g)) >= 2
    /\ Len(Terminals(g)) = 1

\* C2: a request of order above 20 is rejected: no goal handle, no compute
\* thread, no feedback and no result message.
C2_RejectAbove20 ==
  \A g \in Goals :
    (Requested(g) /\ order[g] > 20) =>
       /\ response[g] = "REJECT"
       /\ status[g] = "NONE"
       /\ spawned[g] = 0
       /\ pc[g] = "idle"
       /\ log[g] = <<>>

\* C2 witness: a request of order 21 was answered.
C2_Witness == \E g \in Goals : order[g] = 21 /\ response[g] = "REJECT"

\* C3: a request of order 0..20 is accepted for immediate execution (the
\* handle exists from the response on, never pending) and handle_accepted
\* starts exactly one compute thread for it; no goal has two threads.
C3_AcceptUpTo20 ==
  \A g \in Goals :
    /\ (Requested(g) /\ order[g] >= 0 /\ order[g] <= 20) =>
          /\ response[g] = "ACCEPT_AND_EXECUTE"
          /\ status[g] # "NONE"
          /\ (pc[g] = "idle") = (spawned[g] = 0)
    /\ spawned[g] <= 1
    /\ spawned[g] = 1 => Admitted(g)

\* C3 witness: a goal of order 20 has its one thread, running.
C3_Witness ==
  \E g \in Goals :
    /\ order[g] = 20
    /\ spawned[g] = 1
    /\ pc[g] = "step"
    /\ status[g] = "EXECUTING"

\* C4: a goal of order 0 ends ABORTED only: one abort call with the empty
\* sequence, no feedback, and never succeed or canceled.
C4_OrderZeroAborts ==
  \A g \in Goals :
    (Admitted(g) /\ order[g] = 0) =>
       /\ status[g] \in {"EXECUTING", "ABORTED"}
       /\ Feedbacks(g) = <<>>
       /\ pc[g] = "done" => status[g] = "ABORTED"
       /\ status[g] = "ABORTED" => log[g] = <<Terminal("ABORTED", <<>>)>>
       /\ status[g] = "EXECUTING" => log[g] = <<>>

\* C4 witness: a goal of order 0 was aborted.
C4_Witness ==
  \E g \in Goals : order[g] = 0 /\ status[g] = "ABORTED" /\ pc[g] = "done"

\* C5: a goal of order 1 runs the loop body zero times, publishes no
\* feedback, and, with rclcpp::ok() still true when compute returns, ends
\* SUCCEEDED with result [0, 1].
C5_OrderOne ==
  \A g \in Goals :
    (Admitted(g) /\ order[g] = 1) =>
       /\ Feedbacks(g) = <<>>
       /\ pc[g] \notin {"check", "step"}
       /\ status[g] \in {"EXECUTING", "SUCCEEDED"}
       /\ (pc[g] = "done" /\ ok) => status[g] = "SUCCEEDED"
       /\ status[g] = "SUCCEEDED" =>
            /\ result[g] = <<0, 1>>
            /\ log[g] = <<Terminal("SUCCEEDED", <<0, 1>>)>>

\* C5 witness: a goal of order 1 succeeded.
C5_Witness ==
  \E g \in Goals : order[g] = 1 /\ status[g] = "SUCCEEDED" /\ pc[g] = "done"

\* C6 as stated: a goal of order 5 that succeeded published exactly the
\* feedbacks [0,1,1], [0,1,1,2], [0,1,1,2,3] and its result is [0,1,1,2,3].
C6_AsStated ==
  \A g \in Goals :
    (Admitted(g) /\ order[g] = 5 /\ status[g] = "SUCCEEDED") =>
       /\ Seqs(Feedbacks(g)) = << <<0, 1, 1>>, <<0, 1, 1, 2>>, <<0, 1, 1, 2, 3>> >>
       /\ result[g] = <<0, 1, 1, 2, 3>>

\* C6 amended: a goal of order 5 publishes, in this order and nothing else,
\* the feedbacks [0,1,1], [0,1,1,2], [0,1,1,2,3], [0,1,1,2,3,5]; it is never
\* canceled, and when it succeeded all four were published and its result is
\* [0,1,1,2,3,5], the last message of the goal.
C6_OrderFive ==
  \A g \in Goals :
    (Admitted(g) /\ order[g] = 5) =>
       /\ \E n \in 0..4 :
            Seqs(Feedbacks(g)) =
              SubSeq(<< <<0, 1, 1>>, <<0, 1, 1, 2>>, <<0, 1, 1, 2, 3>>,
                        <<0, 1, 1, 2, 3, 5>> >>, 1, n)
       /\ status[g] \in {"EXECUTING", "SUCCEEDED"}
       /\ (pc[g] = "done" /\ ok) => status[g] = "SUCCEEDED"
       /\ status[g] = "SUCCEEDED" =>
            /\ Len(Feedbacks(g)) = 4
            /\ result[g] = <<0, 1, 1, 2, 3, 5>>
            /\ log[g][Len(log[g])] = Terminal("SUCCEEDED", <<0, 1, 1, 2, 3, 5>>)

\* C6 witness: a goal of order 5 succeeded.
C6_Witness ==
  \E g \in Goals : order[g] = 5 /\ status[g] = "SUCCEEDED" /\ pc[g] = "done"

\* C7: for a goal of order below 10 every cancellation request is answered
\* REJECT, the cancellation flag stays unset, and the goal is never CANCELED:
\* with rclcpp::ok() true to the end it is SUCCEEDED (ABORTED for order 0).
C7_ShortNotCancelable ==
  \A g \in Goals :
    (Admitted(g) /\ order[g] < 10) =>
       /\ cancelResponse[g] \in {"NONE", "REJECT"}
       /\ cancels[g] > 0 => cancelResponse[g] = "REJECT"
       /\ ~canceling[g]
       /\ cancelAt[g] = -1
       /\ status[g] # "CANCELED"
       /\ (pc[g] = "done" /\ ok) =>
            status[g] = (IF order[g] = 0 THEN "ABORTED" ELSE "SUCCEEDED")
       /\ (status[g] = "SUCCEEDED" /\ order[g] >= 1) =>
            Len(Feedbacks(g)) = order[g] - 1

\* C7 witness: a goal of order 5 got cancellation requests while it was
\* running, as many as a client sends, and succeeded.
C7_Witness ==
  \E g \in Goals :
    /\ order[g] = 5
    /\ cancels[g] = MaxCancels
    /\ cancelResponse[g] = "REJECT"
    /\ status[g] = "SUCCEEDED"

\* C8 as stated: a goal of order 10..20 whose cancellation was requested
\* while it was EXECUTING with k appended elements ends CANCELED with a result
\* of length k + 2 and no feedback after the request.
C8_AsStated ==
  \A g \in Goals :
    (Admitted(g) /\ order[g] >= 10 /\ cancelAt[g] >= 0 /\ pc[g] = "done" /\ ok) =>
       /\ status[g] = "CANCELED"
       /\ Len(result[g]) = cancelAt[g] + 2
       /\ Len(Feedbacks(g)) = cancelAt[g]

\* C8 amended: for a goal of order 10..20 every cancellation request is
\* answered ACCEPT, and one issued while the goal is EXECUTING with k appended
\* elements raises the flag.  From then on the thread passes no step-boundary
\* check with the flag raised: it publishes at most one feedback after the
\* request (only for a step whose check had passed before it), and the first
\* check after the request ends the goal CANCELED with the sequence
\* accumulated so far as result, of length k + 2 or k + 3, the last message.
\* If no check follows the request, because the loop is over (k = order - 1,
\* or k = order - 2 and the last check had passed), the goal ends SUCCEEDED
\* with all order + 1 elements.
C8_CancelObserved ==
  \A g \in Goals :
    (Admitted(g) /\ order[g] >= 10 /\ order[g] <= 20) =>
       /\ cancels[g] > 0 => cancelResponse[g] = "ACCEPT"
       /\ (cancels[g] > 0 /\ status[g] = "EXECUTING") => cancelAt[g] >= 0
       /\ cancelAt[g] >= 0 =>
            /\ canceling[g]
            /\ Len(Feedbacks(g)) \in {cancelAt[g], cancelAt[g] + 1}
            /\ pc[g] = "step" => Len(Feedbacks(g)) = cancelAt[g]
       /\ status[g] = "CANCELED" =>
            /\ cancelAt[g] >= 0
            /\ result[g] = sequence[g]
            /\ Len(result[g]) = Len(Feedbacks(g)) + 2
            /\ Len(result[g]) \in {cancelAt[g] + 2, cancelAt[g] + 3}
            /\ log[g][Len(log[g])] = Terminal("CANCELED", result[g])
       /\ (status[g] = "SUCCEEDED" /\ cancelAt[g] >= 0) =>
            /\ cancelAt[g] >= order[g] - 2
            /\ Len(result[g]) = order[g] + 1
       /\ (pc[g] = "done" /\ ok /\ cancelAt[g] >= 0 /\ cancelAt[g] < order[g] - 2) =>
            status[g] = "CANCELED"

\* C8 witness: a goal of order 10..20 canceled with one feedback published
\* after the request.
C8_Witness ==
  \E g \in Goals :
    /\ order[g] >= 10
    /\ status[g] = "CANCELED"
    /\ cancelAt[g] = 3
    /\ Len(result[g]) = 6

\* C9: the j-th feedback of a goal carries j + 2 elements and extends the
\* one before it by exactly one element, and a result message is the last
\* message of its goal: no feedback follows succeed, canceled or abort.
C9_MessageOrder ==
  \A g \in Goals :
    /\ \A j \in 1..Len(log[g]) : IsTerminal(log[g][j]) => j = Len(log[g])
    /\ \A j \in 1..Len(Feedbacks(g)) :
         /\ Len(Feedbacks(g)[j].seq) = j + 2
         /\ j = 1 => SubSeq(Feedbacks(g)[j].seq, 1, 2) = <<0, 1>>
         /\ j > 1 => SubSeq(Feedbacks(g)[j].seq, 1, j + 1) = Feedbacks(g)[j - 1].seq
    /\ \A j \in 1..Len(log[g]) : IsFeedback(log[g][j]) => log[g][j] = Feedbacks(g)[j]

\* C9 witness: a result message after several feedbacks.
C9_Witness ==
  \E g \in Goals :
    /\ Len(log[g]) >= 4
    /\ IsTerminal(log[g][Len(log[g])])
    /\ IsFeedback(log[g][Len(log[g]) - 1])

\* Everything the server keeps for one goal.
GoalState(g) ==
  <<order[g], response[g], status[g], canceling[g], cancelResponse[g],
    cancels[g], cancelAt[g], spawned[g], pc[g], i[g], sequence[g], result[g],
    log[g]>>

\* C10: goals progress independently under every interleaving: a step of
\* the dispatch path or of a compute thread changes the state of at most one
\* goal (its flag, sequence, feedback, result, status), so an accepted
\* cancellation of one goal leaves the other goal as it was; and whether a
\* goal's thread can take its next step depends on that thread alone, never
\* on whether the other goal exists, runs, is canceled or has ended.
C10_Independent ==
  /\ [](\A g \in Goals :
          (ENABLED compute(g)) = (pc[g] \in {"start", "loop", "check", "step", "final", "succeed"}))
  /\ [][\A g, h \in Goals :
          (g # h /\ GoalState(g)' # GoalState(g)) => GoalState(h)' = GoalState(h)]_vars

\* C10 witness: orders 10 and 5 admitted together; the first was canceled on
\* request, the second ran to its end with all its feedback.
C10_Witness ==
  \E g, h \in Goals :
    /\ g # h
    /\ order[g] = 10 /\ status[g] = "CANCELED" /\ Len(Feedbacks(g)) = 2
    /\ order[h] = 5 /\ status[h] = "SUCCEEDED" /\ Len(Feedbacks(h)) = 4
    /\ ~canceling[h]

\* C11: a cancellation request for a goal that already is SUCCEEDED,
\* CANCELED or ABORTED, the first or a repeated one, changes neither the
\* status nor the delivered result of the goal and emits no message; nor
\* does anything else once the goal is terminal.
C11_CancelAfterTerminal ==
  [][\A g \in Goals :
       status[g] \in TerminalStatus =>
          /\ status'[g] = status[g]
          /\ result'[g] = result[g]
          /\ log'[g] = log[g]
          /\ sequence'[g] = sequence[g]
          /\ pc'[g] = pc[g]]_vars

\* C11 witness: a goal of order 10 succeeded and then got as many
\* cancellation requests as a client sends, all after its end.
C11_Witness ==
  \E g \in Goals :
    /\ order[g] = 10
    /\ status[g] = "SUCCEEDED"
    /\ cancels[g] = MaxCancels
    /\ cancelResponse[g] = "ACCEPT"
    /\ cancelAt[g] = -1
    /\ Len(Terminals(g)) = 1

\* C12: with every compute thread scheduled fairly, every admitted goal
\* reaches one of SUCCEEDED, CANCELED, ABORTED unless rclcpp::ok() turns
\* false, whatever cancellation requests arrive.
C12_EventuallyTerminal ==
  \A g \in Goals :
    Admitted(g) ~> (status[g] \in TerminalStatus \/ ~ok)

\* C12 witness: a goal of order 10 ended with rclcpp::ok() still true and
\* cancellation requests received during its run.
C12_Witness ==
  \E g \in Goals :
    /\ order[g] = 10
    /\ ok
    /\ cancelAt[g] >= 1
    /\ cancels[g] = MaxCancels
    /\ status[g] \in TerminalStatus

\* C13 as stated: once rclcpp::ok() is false, a goal that is EXECUTING stays
\* EXECUTING: its thread calls none of succeed, canceled, abort.
C13_AsStated ==
  [][\A g \in Goals :
       (~ok /\ status[g] = "EXECUTING") => status'[g] = "EXECUTING"]_vars

\* C14: the dispatch path never runs the computation: a step of handle_goal,
\* handle_cancel or handle_accepted appends nothing, publishes nothing and
\* moves no thread except to start one; and whether a goal request, a
\* cancellation or handle_accepted can be processed never depends on the
\* goals that are executing, whatever their threads are doing.
C14_DispatchNeverBlocks ==
  /\ [](\A g \in Goals :
          /\ (ENABLED (\E o \in Orders : GoalRequest(g, o))) =
               (ok /\ response[g] = "NONE")
          /\ (ENABLED CancelRequest(g)) =
               (ok /\ status[g] # "NONE" /\ cancels[g] < MaxCancels)
          /\ (ENABLED HandleAccepted(g)) =
               (ok /\ Admitted(g) /\ spawned[g] = 0))
  /\ [][dispatchVars' # dispatchVars =>
          /\ sequence' = sequence
          /\ i' = i
          /\ log' = log
          /\ result' = result
          /\ \A g \in Goals :
               pc'[g] # pc[g] => (pc[g] = "idle" /\ pc'[g] = "start")]_vars

\* C14 witness: one goal's thread is between two steps with feedback
\* published, a cancellation for it was processed during its run, and the
\* other goal was accepted and its thread started meanwhile.
C14_Witness ==
  \E g, h \in Goals :
    /\ g # h
    /\ status[g] = "EXECUTING" /\ pc[g] = "loop"
    /\ cancelAt[g] = 2 /\ Len(Feedbacks(g)) = 3
    /\ status[h] = "EXECUTING" /\ pc[h] = "start"

RECURSIVE Fib(_)
\* The Fibonacci numbers: 0, 1, 1, 2, 3, 5, ...
Fib(n) == IF n <= 1 THEN n ELSE Fib(n - 1) + Fib(n - 2)

\* C15: a goal of order 1..20 that succeeds (it does when rclcpp::ok() stays
\* true and no cancellation is requested) has appended order - 1 elements to
\* [0, 1], each the sum of the two before it, published order - 1 feedbacks,
\* and its result is the first order + 1 Fibonacci numbers.
C15_FibonacciResult ==
  \A g \in Goals :
    (Admitted(g) /\ order[g] >= 1 /\ order[g] <= 20) =>
       /\ (pc[g] = "done" /\ ok /\ ~canceling[g]) => status[g] = "SUCCEEDED"
       /\ status[g] = "SUCCEEDED" =>
            /\ Len(result[g]) = order[g] + 1
            /\ Len(Feedbacks(g)) = order[g] - 1
            /\ result[g][1] = 0 /\ result[g][2] = 1
            /\ \A j \in 3..Len(result[g]) :
                 result[g][j] = result[g][j - 1] + result[g][j - 2]
            /\ \A j \in 1..Len(result[g]) : result[g][j] = Fib(j - 1)

\* C15 witness: a goal of order 20 succeeded.
C15_Witness ==
  \E g \in Goals :
    order[g] = 20 /\ status[g] = "SUCCEEDED" /\ Len(result[g]) = 21

\* C16: cancellation is cooperative: processing a cancellation request
\* changes no goal's status, sequence, result or messages and moves no
\* thread; a goal becomes CANCELED only by a step of its own thread at the
\* step-boundary check, from EXECUTING, with the flag already raised and
\* order >= 10.
C16_Cooperative ==
  [][\A g \in Goals :
       /\ cancels'[g] # cancels[g] =>
            /\ status' = status
            /\ sequence' = sequence
            /\ result' = result
            /\ log' = log
            /\ pc' = pc
       /\ (status'[g] = "CANCELED" /\ status[g] # "CANCELED") =>
            /\ status[g] = "EXECUTING"
            /\ pc[g] = "check"
            /\ canceling[g]
            /\ order[g] >= 10
            /\ cancels' = cancels]_vars

\* C16 witness: the flag of an EXECUTING goal is raised and its thread, past
\* the check, is about to append.
C16_Witness ==
  \E g \in Goals :
    /\ canceling[g]
    /\ status[g] = "EXECUTING"
    /\ pc[g] = "step"
    /\ Len(Feedbacks(g)) >= 1

\* C17: the decisions depend on the order alone: a goal request is answered
\* REJECT exactly when its order is above 20 and a cancellation request
\* exactly when the goal's order is below 10, whatever the other goals are
\* doing; processing either changes no goal's sequence, result, messages or
\* thread, no status but that of the goal a request creates, and no flag but
\* that of the goal whose cancellation was accepted.
C17_DecisionsByOrderAlone ==
  /\ [](\A g \in Goals :
          /\ Requested(g) =>
               response[g] = (IF order[g] > 20 THEN "REJECT" ELSE "ACCEPT_AND_EXECUTE")
          /\ cancels[g] > 0 =>
               cancelResponse[g] = (IF order[g] < 10 THEN "REJECT" ELSE "ACCEPT"))
  /\ [][\A g \in Goals :
          /\ response'[g] # response[g] =>
               /\ \A h \in Goals \ {g} : status'[h] = status[h]
               /\ <<canceling, sequence, result, log, pc, i>>' =
                    <<canceling, sequence, result, log, pc, i>>
          /\ cancels'[g] # cancels[g] =>
               /\ <<status, sequence, result, log, pc, i>>' =
                    <<status, sequence, result, log, pc, i>>
               /\ \A h \in Goals \ {g} : canceling'[h] = canceling[h]
               /\ canceling'[g] # canceling[g] => cancelResponse'[g] = "ACCEPT"]_vars

\* C17 witness: two goals of the same order 10 got the same answers while in
\* different states, one canceled and one running.
C17_Witness ==
  \E g, h \in Goals :
    /\ g # h
    /\ order[g] = 10 /\ order[h] = 10
    /\ response[g] = response[h]
    /\ cancelResponse[g] = "ACCEPT" /\ cancelResponse[h] = "ACCEPT"
    /\ status[g] = "CANCELED" /\ status[h] = "EXECUTING"

\* C18: once the cancellation flag of an executing goal is raised, its
\* thread appends and publishes at most once more (the step whose check had
\* passed before), and with rclcpp::ok() true the goal then ends.
C18_AtMostOneMoreStep ==
  \A g \in Goals :
    cancelAt[g] >= 0 =>
       /\ Len(Feedbacks(g)) <= cancelAt[g] + 1
       /\ Len(sequence[g]) <= cancelAt[g] + 3
       /\ (pc[g] = "done" /\ ok) => status[g] \in {"CANCELED", "SUCCEEDED"}
       /\ (pc[g] \in {"check", "step"} /\ Len(Feedbacks(g)) = cancelAt[g] + 1) =>
            pc[g] = "check"

\* C18 witness: a goal of order 20 whose flag was raised after three
\* feedbacks published a fourth and was then canceled.
C18_Witness ==
  \E g \in Goals :
    /\ order[g] = 20
    /\ cancelAt[g] = 3
    /\ Len(Feedbacks(g)) = 4
    /\ status[g] = "CANCELED"

\* C19: a request of negative order is accepted; its thread runs no loop
\* iteration and publishes no feedback, and with rclcpp::ok() true the goal
\* ends SUCCEEDED with result [0, 1]: never rejected, never aborted.
C19_NegativeOrder ==
  \A g \in Goals :
    (Requested(g) /\ order[g] < 0) =>
       /\ response[g] = "ACCEPT_AND_EXECUTE"
       /\ status[g] \in {"EXECUTING", "SUCCEEDED"}
       /\ Feedbacks(g) = <<>>
       /\ pc[g] \notin {"check", "step"}
       /\ (pc[g] = "done" /\ ok) => status[g] = "SUCCEEDED"
       /\ status[g] = "SUCCEEDED" =>
            /\ result[g] = <<0, 1>>
            /\ log[g] = <<Terminal("SUCCEEDED", <<0, 1>>)>>

\* C19 witness: a goal of order -2 succeeded.
C19_Witness ==
  \E g \in Goals : order[g] = -2 /\ status[g] = "SUCCEEDED" /\ pc[g] = "done"

\* C20: every element of a sequence is between 0 and 6765, so is every sum
\* the append computes (far below 2^31 - 1, the largest int), and the append
\* reads the indices i and i - 1 inside the vector: 0 <= i - 1 and i < size.
C20_NoOverflowInBounds ==
  \A g \in Goals :
    /\ \A j \in 1..Len(sequence[g]) : sequence[g][j] >= 0 /\ sequence[g][j] <= 6765
    /\ \A j \in 1..Len(result[g]) : result[g][j] >= 0 /\ result[g][j] <= 6765
    /\ pc[g] = "step" =>
         /\ i[g] - 1 >= 0
         /\ i[g] < Len(sequence[g])
         /\ i[g] = Len(sequence[g]) - 1
         /\ sequence[g][i[g] + 1] + sequence[g][i[g]] >= 0
         /\ sequence[g][i[g] + 1] + sequence[g][i[g]] <= 6765
         /\ sequence[g][i[g] + 1] + sequence[g][i[g]] <= 2147483647

\* C20 witness: the largest element, 6765, was appended for order 20.
C20_Witness ==
  \E g \in Goals :
    /\ order[g] = 20
    /\ Len(sequence[g]) = 21
    /\ sequence[g][21] = 6765

----------------------------------------------------------------------------
TypeOK ==
  /\ ok \in BOOLEAN
  /\ \A g \in Goals :
       /\ order[g] \in Orders \cup SoloOrders \cup {NoOrder}
       /\ response[g] \in {"NONE", "REJECT", "ACCEPT_AND_EXECUTE"}
       /\ status[g] \in {"NONE", "EXECUTING"} \cup TerminalStatus
       /\ canceling[g] \in BOOLEAN
       /\ cancelResponse[g] \in {"NONE", "REJECT", "ACCEPT"}
       /\ spawned[g] \in Nat
       /\ cancels[g] \in 0..MaxCancels
       /\ pc[g] \in {"idle", "start", "loop", "check", "step", "final", "succeed", "done"}

====
